---- MODULE Spec2Model ----
(***************************************************************************)
(* Model of the Stellar smart-contract language server                     *)
(* (server/src/server.ts): the diagnostic pass validateTextDocument, the   *)
(* per-document settings cache, the document lifecycle handlers, the hover *)
(* resolver and the completion handlers.                                   *)
(*                                                                         *)
(* Texts are TLA+ strings; the JavaScript string primitives the server     *)
(* uses (includes, indexOf, trim, split, substring) are modelled character *)
(* by character with Len and SubSeq.  Line and column numbers are 0-based  *)
(* as in the source; SubSeq is 1-based, hence the +1 in the helpers.       *)
(***************************************************************************)
EXTENDS Integers, Sequences, FiniteSets, TLC

VARIABLES
    vtext,      \* SpecValidate: the text handed to the diagnostic pass
    vresult,    \* SpecValidate: <<>> before the pass, <<diagnostics>> after
    hdoc,       \* SpecHover: <<text>> of the document of the request, <<>> if not open
    hpos,       \* SpecHover: the position of the hover request
    hresult,    \* SpecHover: <<>> before the request, <<answer>> after
    ccalls,     \* SpecComplete: the completion requests handled, [params, result] each
    cresolved,  \* SpecComplete: a candidate the client picked, then its successive resolutions
    hasConfigurationCapability, \* server.ts:33
    globalSettings,             \* server.ts:113
    documentSettings,           \* server.ts:114  uri -> promise id
    promises,                   \* promise id -> Pending | Rejected | Fulfilled(settings)
    documents,                  \* server.ts:31   uri -> TextDocument object id
    objects,                    \* TextDocument object id -> [uri, text]
    passes,                     \* suspended validateTextDocument calls, oldest first
    published,                  \* client side: uri -> diagnostics in effect
    sent,                       \* sendDiagnostics notifications issued by the last step
    done,                       \* history: the passes that ended in the last step
    clean                       \* history: uri -> never closed, no pass ended without publishing

vvars == <<vtext, vresult>>
hvars == <<hdoc, hpos, hresult>>
cvars == <<ccalls, cresolved>>
svars == <<hasConfigurationCapability, globalSettings, documentSettings,
           promises, documents, objects, passes, published, sent, done, clean>>
vars == <<vtext, vresult, hdoc, hpos, hresult, ccalls, cresolved,
          hasConfigurationCapability, globalSettings,
          documentSettings, promises, documents, objects, passes, published,
          sent, done, clean>>

(***************************************************************************)
(* JavaScript string primitives                                            *)
(***************************************************************************)
Min(a, b) == IF a <= b THEN a ELSE b

\* 0-based start offsets at which p occurs in s
Occurrences(s, p) ==
    {k \in 0..(Len(s) - Len(p)) : SubSeq(s, k + 1, k + Len(p)) = p}

includes(s, p) ==
    \E k \in 0..(Len(s) - Len(p)) : SubSeq(s, k + 1, k + Len(p)) = p

indexOf(s, p) ==
    IF Occurrences(s, p) = {} THEN -1
    ELSE CHOOSE k \in Occurrences(s, p) : \A m \in Occurrences(s, p) : k <= m

WhiteSpace == {" ", "\t", "\r", "\n"}

RECURSIVE trimStart(_)
trimStart(s) ==
    IF Len(s) > 0 /\ SubSeq(s, 1, 1) \in WhiteSpace
    THEN trimStart(SubSeq(s, 2, Len(s)))
    ELSE s

RECURSIVE trimEnd(_)
trimEnd(s) ==
    IF Len(s) > 0 /\ SubSeq(s, Len(s), Len(s)) \in WhiteSpace
    THEN trimEnd(SubSeq(s, 1, Len(s) - 1))
    ELSE s

trim(s) == trimEnd(trimStart(s))

\* text.split('\n'): one segment per newline-delimited piece, never empty
RECURSIVE split(_)
split(text) ==
    IF indexOf(text, "\n") = -1 THEN <<text>>
    ELSE <<SubSeq(text, 1, indexOf(text, "\n"))>>
         \o split(SubSeq(text, indexOf(text, "\n") + 2, Len(text)))

(***************************************************************************)
(* validateTextDocument: the scan (server.ts:160-320)                      *)
(***************************************************************************)
DiagnosticSeverity == [Error |-> 1, Warning |-> 2, Information |-> 3, Hint |-> 4]

Source == "stellar-lsp"

MsgStruct       == "Stellar contract struct must have #[contract] attribute"
MsgImpl         == "Stellar contract implementation must have #[contractimpl] attribute"
MsgContractType == "Consider adding #[contracttype] attribute for Stellar contract data types"
MsgRequireAuth  == "Consider adding require_auth() for address parameters in state-changing functions"
MsgUnwrap       == "Consider using unwrap_or() or proper error handling instead of unwrap()"
MsgStorage      == "Storage access must specify type: .instance(), .persistent(), or .temporary()"
MsgGlobalStruct == "Contract struct is missing #[contract] attribute"
MsgGlobalImpl   == "Contract implementation is missing #[contractimpl] attribute"

Diag(sev, line, startCh, endCh, msg) ==
    [severity |-> sev,
     range    |-> [start |-> [line |-> line, character |-> startCh],
                   end   |-> [line |-> line, character |-> endCh]],
     message  |-> msg,
     source   |-> Source]

\* variant: the first line is taken to have an attribute above it
NoAttributeAboveSkipFirst(lines, i, attr) ==
    i > 0 /\ ~includes(trim(lines[i]), attr)

\* the line above line i lacks the attribute (or there is no line above)
NoAttributeAbove(lines, i, attr) ==
    i = 0 \/ ~includes(trim(lines[i]), attr)

\* server.ts:246-254, the scan from line j of the body of the function
\* declared on line i: TRUE iff require_auth() is met before a closing brace
RECURSIVE LookAhead(_, _, _)
LookAhead(lines, i, j) ==
    IF ~(j < Min(i + 10, Len(lines))) THEN FALSE
    ELSE IF includes(lines[j + 1], "require_auth()") THEN TRUE
    ELSE IF includes(lines[j + 1], "}") THEN FALSE
    ELSE LookAhead(lines, i, j + 1)

StructRule(lines, i) ==
    LET line == lines[i + 1]  trimmedLine == trim(line) IN
    IF includes(trimmedLine, "struct") /\ includes(trimmedLine, "Contract")
       /\ NoAttributeAbove(lines, i, "#[contract]")
    THEN <<Diag(DiagnosticSeverity.Error, i, 0, Len(line), MsgStruct)>>
    ELSE <<>>

ImplRule(lines, i) ==
    LET line == lines[i + 1]  trimmedLine == trim(line) IN
    IF includes(trimmedLine, "impl") /\ includes(trimmedLine, "Contract")
       /\ NoAttributeAbove(lines, i, "#[contractimpl]")
    THEN <<Diag(DiagnosticSeverity.Error, i, 0, Len(line), MsgImpl)>>
    ELSE <<>>

\* variant: the rule asks whether the document has the import on any line
ContractTypeRuleAnywhere(lines, i, hasSorobanSdkImport) ==
    LET line == lines[i + 1]  trimmedLine == trim(line) IN
    IF (includes(trimmedLine, "enum") \/ includes(trimmedLine, "struct"))
       /\ ~includes(trimmedLine, "Contract")
       /\ NoAttributeAbove(lines, i, "#[contracttype]")
       /\ \E j \in DOMAIN lines : includes(trim(lines[j]), "use soroban_sdk")
    THEN <<Diag(DiagnosticSeverity.Warning, i, 0, Len(line), MsgContractType)>>
    ELSE <<>>

ContractTypeRule(lines, i, hasSorobanSdkImport) ==
    LET line == lines[i + 1]  trimmedLine == trim(line) IN
    IF (includes(trimmedLine, "enum") \/ includes(trimmedLine, "struct"))
       /\ ~includes(trimmedLine, "Contract")
       /\ NoAttributeAbove(lines, i, "#[contracttype]")
       /\ hasSorobanSdkImport
    THEN <<Diag(DiagnosticSeverity.Warning, i, 0, Len(line), MsgContractType)>>
    ELSE <<>>

\* variant: the look-ahead reads its whole window, closing braces included
RequireAuthRuleWholeWindow(lines, i) ==
    LET line == lines[i + 1]  trimmedLine == trim(line) IN
    IF includes(trimmedLine, "pub fn") /\ ~includes(trimmedLine, "view")
       /\ ~(\E j \in (i + 1)..(Min(i + 10, Len(lines)) - 1) :
                includes(lines[j + 1], "require_auth()"))
       /\ includes(trimmedLine, "Address")
    THEN <<Diag(DiagnosticSeverity.Warning, i, 0, Len(line), MsgRequireAuth)>>
    ELSE <<>>

RequireAuthRule(lines, i) ==
    LET line == lines[i + 1]  trimmedLine == trim(line) IN
    IF includes(trimmedLine, "pub fn") /\ ~includes(trimmedLine, "view")
       /\ ~LookAhead(lines, i, i + 1) /\ includes(trimmedLine, "Address")
    THEN <<Diag(DiagnosticSeverity.Warning, i, 0, Len(line), MsgRequireAuth)>>
    ELSE <<>>

\* variant: the range of the unwrap() warning ends 8 columns past the match
UnwrapRulePastMatch(lines, i) ==
    LET line == lines[i + 1]  trimmedLine == trim(line) IN
    IF includes(trimmedLine, "unwrap()") /\ ~includes(trimmedLine, "unwrap_or")
    THEN <<Diag(DiagnosticSeverity.Warning, i, indexOf(trimmedLine, "unwrap()"),
                indexOf(trimmedLine, "unwrap()") + 16, MsgUnwrap)>>
    ELSE <<>>

UnwrapRule(lines, i) ==
    LET line == lines[i + 1]  trimmedLine == trim(line) IN
    IF includes(trimmedLine, "unwrap()") /\ ~includes(trimmedLine, "unwrap_or")
    THEN <<Diag(DiagnosticSeverity.Warning, i, indexOf(trimmedLine, "unwrap()"),
                indexOf(trimmedLine, "unwrap()") + 8, MsgUnwrap)>>
    ELSE <<>>

\* variant: the storage rule reports a warning
StorageRuleAsWarning(lines, i) ==
    LET line == lines[i + 1]  trimmedLine == trim(line) IN
    IF includes(trimmedLine, "env.storage()") /\ ~includes(trimmedLine, ".instance()")
       /\ ~includes(trimmedLine, ".persistent()") /\ ~includes(trimmedLine, ".temporary()")
    THEN <<Diag(DiagnosticSeverity.Warning, i, 0, Len(line), MsgStorage)>>
    ELSE <<>>

StorageRule(lines, i) ==
    LET line == lines[i + 1]  trimmedLine == trim(line) IN
    IF includes(trimmedLine, "env.storage()") /\ ~includes(trimmedLine, ".instance()")
       /\ ~includes(trimmedLine, ".persistent()") /\ ~includes(trimmedLine, ".temporary()")
    THEN <<Diag(DiagnosticSeverity.Error, i, 0, Len(line), MsgStorage)>>
    ELSE <<>>

\* the locals of validateTextDocument before the loop (server.ts:161-168)
ScanStart ==
    [diagnostics |-> <<>>,
     hasContractStruct |-> FALSE, hasContractImpl |-> FALSE,
     hasContractAttribute |-> FALSE, hasContractImplAttribute |-> FALSE,
     hasSorobanSdkImport |-> FALSE]

\* one iteration of the loop over the lines (server.ts:170-295)
ScanLine(st, lines, i) ==
    LET trimmedLine == trim(lines[i + 1])
        import == st.hasSorobanSdkImport \/ includes(trimmedLine, "use soroban_sdk")
    IN  [diagnostics |->
             st.diagnostics \o StructRule(lines, i) \o ImplRule(lines, i)
             \o ContractTypeRule(lines, i, import) \o RequireAuthRule(lines, i)
             \o UnwrapRule(lines, i) \o StorageRule(lines, i),
         hasContractStruct |-> st.hasContractStruct
             \/ (includes(trimmedLine, "struct") /\ includes(trimmedLine, "Contract")),
         hasContractImpl |-> st.hasContractImpl
             \/ (includes(trimmedLine, "impl") /\ includes(trimmedLine, "Contract")),
         hasContractAttribute |-> st.hasContractAttribute
             \/ includes(trimmedLine, "#[contract]"),
         hasContractImplAttribute |-> st.hasContractImplAttribute
             \/ includes(trimmedLine, "#[contractimpl]"),
         hasSorobanSdkImport |-> import]

RECURSIVE Scan(_, _, _)
Scan(st, lines, i) ==
    IF i < Len(lines) THEN Scan(ScanLine(st, lines, i), lines, i + 1) ELSE st

\* variant: the whole-document struct check tests the attribute flag unnegated
GlobalStructRuleUnnegated(st) ==
    IF st.hasSorobanSdkImport /\ st.hasContractStruct /\ st.hasContractAttribute
    THEN <<Diag(DiagnosticSeverity.Error, 0, 0, 0, MsgGlobalStruct)>>
    ELSE <<>>

\* the whole-document checks (server.ts:297-320)
GlobalStructRule(st) ==
    IF st.hasSorobanSdkImport /\ st.hasContractStruct /\ ~st.hasContractAttribute
    THEN <<Diag(DiagnosticSeverity.Error, 0, 0, 0, MsgGlobalStruct)>>
    ELSE <<>>

\* variant: the whole-document impl check does not consult the attribute flag
GlobalImplRuleIgnoringAttribute(st) ==
    IF st.hasSorobanSdkImport /\ st.hasContractImpl
    THEN <<Diag(DiagnosticSeverity.Error, 0, 0, 0, MsgGlobalImpl)>>
    ELSE <<>>

GlobalImplRule(st) ==
    IF st.hasSorobanSdkImport /\ st.hasContractImpl /\ ~st.hasContractImplAttribute
    THEN <<Diag(DiagnosticSeverity.Error, 0, 0, 0, MsgGlobalImpl)>>
    ELSE <<>>

\* variant: the whole-document checks run before the loop over the lines
ValidateTextGlobalsFirst(text) ==
    LET st == Scan(ScanStart, split(text), 0)
    IN  GlobalStructRule(st) \o GlobalImplRule(st) \o st.diagnostics

\* the diagnostics array handed to sendDiagnostics for a text (server.ts:160-322)
ValidateText(text) ==
    LET st == Scan(ScanStart, split(text), 0)
    IN  st.diagnostics \o GlobalStructRule(st) \o GlobalImplRule(st)

(***************************************************************************)
(* SpecValidate: the diagnostic pass as a function of the text.  A text is *)
(* built line by line from LineSet (or is one of the scenario documents)   *)
(* and the pass is run on it once.                                         *)
(***************************************************************************)
MaxLines == 3

LineSet ==
    {"use soroban_sdk::Env;",
     "struct MyContract;",
     "impl MyContract {",
     "#[contract]",
     "#[contractimpl]",
     "  x.unwrap();",
     "// struct and impl of Contract",
     "fn main() {}"}

\* the scenario document of the specification, the import placed last / first
Scenario == "struct MyContract;\nimpl MyContract {\n pub fn f(env: Env) {}\n}\n"

ScenarioTexts ==
    {Scenario \o "use soroban_sdk::Env;",
     "use soroban_sdk::Env;\n" \o Scenario}

\* the same document with each attribute on the line above its declaration
AttributedScenario ==
    "#[contract]\nstruct MyContract;\n#[contractimpl]\nimpl MyContract {\n pub fn f(env: Env) {}\n}\n"

AttributedScenarioTexts ==
    {AttributedScenario \o "use soroban_sdk::Env;",
     "use soroban_sdk::Env;\n" \o AttributedScenario}

\* the quick-start contract of the usage guide
QuickStart ==
    "#![no_std]\nuse soroban_sdk::{contract, contractimpl, Env, Symbol};\n\n"
    \o "#[contract]\npub struct HelloWorld;\n\n"
    \o "#[contractimpl]\nimpl HelloWorld {\n"
    \o "    pub fn hello(env: Env, name: Symbol) -> Symbol {\n"
    \o "        Symbol::new(&env, \"Hello\")\n    }\n}\n"

(***************************************************************************)
(* The server: settings cache, document lifecycle, validation passes       *)
(***************************************************************************)
UriSeq == <<"a.rs", "b.rs">>

Uris == {UriSeq[k] : k \in DOMAIN UriSeq}

\* the texts the modelled client opens documents with and edits them to
TextSet ==
    {"fn main() {}",
     "struct MyContract;"}

MaxPromises == 2
MaxPasses == 2

defaultSettings ==
    [lsp |-> [enable |-> TRUE, trace |-> [server |-> "off"]],
     diagnostics |-> [enable |-> TRUE]]

\* the settings values a client can configure
SettingsValues == {[defaultSettings EXCEPT !.diagnostics.enable = b] : b \in BOOLEAN}

\* the states of a promise
Pending == [state |-> "pending"]
Rejected == [state |-> "rejected"]
Fulfilled(value) == [state |-> "fulfilled", value |-> value]

\* how a getConfiguration request can end
Outcomes == {Fulfilled(v) : v \in SettingsValues} \cup {Rejected}

\* a property the notification does not carry
undefined == [undefined |-> TRUE]

\* the part of the state one handler run threads through its calls
Now ==
    [documentSettings |-> documentSettings, promises |-> promises,
     passes |-> passes, published |-> published, sent |-> <<>>, done |-> <<>>]

Range(f) == {f[x] : x \in DOMAIN f}

Restrict(f, S) == [x \in DOMAIN f \cap S |-> f[x]]

SelectWaiting(ps, p) == SelectSeq(ps, LAMBDA w : w.promise = p)

\* promises nobody can reach any more are dropped (and their ids reused)
Collect(s) ==
    [s EXCEPT !.promises =
        Restrict(@, Range(s.documentSettings) \cup {w.promise : w \in Range(s.passes)})]

\* the id of a newly created promise: the least id not in use
FreshPromise(s) ==
    CHOOSE p \in 1..(Cardinality(DOMAIN s.promises) + 1) :
        /\ p \notin DOMAIN s.promises
        /\ \A q \in 1..(p - 1) : q \in DOMAIN s.promises

\* variant: every lookup makes a new request and caches it
getDocumentSettingsUncached(s, g, resource) ==
    IF ~hasConfigurationCapability
    THEN [s |-> s, id |-> 0, state |-> Fulfilled(g)]
    ELSE LET p == FreshPromise(s)
         IN  [s |-> [s EXCEPT !.promises = (p :> Pending) @@ @,
                              !.documentSettings =
                                  (resource :> p) @@ Restrict(@, DOMAIN @ \ {resource})],
              id |-> p, state |-> Pending]

\* variant: the lookup goes through the cache whatever the capability
getDocumentSettingsAlwaysAsking(s, g, resource) ==
    IF resource \in DOMAIN s.documentSettings
    THEN [s |-> s, id |-> s.documentSettings[resource],
          state |-> s.promises[s.documentSettings[resource]]]
    ELSE LET p == FreshPromise(s)
         IN  [s |-> [s EXCEPT !.promises = (p :> Pending) @@ @,
                              !.documentSettings = (resource :> p) @@ @],
              id |-> p, state |-> Pending]

\* server.ts:127-142.  Returns the awaited promise: its id (0 for
\* Promise.resolve(globalSettings)) and its state when the caller awaits it.
getDocumentSettings(s, g, resource) ==
    IF ~hasConfigurationCapability
    THEN [s |-> s, id |-> 0, state |-> Fulfilled(g)]
    ELSE IF resource \in DOMAIN s.documentSettings
    THEN [s |-> s, id |-> s.documentSettings[resource],
          state |-> s.promises[s.documentSettings[resource]]]
    ELSE LET p == FreshPromise(s)
         IN  [s |-> [s EXCEPT !.promises = (p :> Pending) @@ @,
                              !.documentSettings = (resource :> p) @@ @],
              id |-> p, state |-> Pending]

\* A pass is [doc, promise]: the TextDocument it was called with and the
\* promise it awaits.  The history entry of its end: the uri, the text the
\* document had, how the pass ended, and whether the promise it awaited had
\* been superseded in the cache since the pass was called.
Ended(s, objs, w, result) ==
    [uri |-> objs[w.doc].uri, text |-> objs[w.doc].text, result |-> result,
     superseded |-> /\ w.promise # 0
                    /\ objs[w.doc].uri \in DOMAIN s.documentSettings
                    /\ s.documentSettings[objs[w.doc].uri] # w.promise]

\* server.ts:160-322: read the text, scan it, send the diagnostics
PublishPass(s, objs, w) ==
    LET diagnostics == ValidateText(objs[w.doc].text)
    IN  [s EXCEPT !.published[objs[w.doc].uri] = diagnostics,
                  !.sent = Append(@, [uri |-> objs[w.doc].uri, diagnostics |-> diagnostics]),
                  !.done = Append(@, Ended(s, objs, w, "published"))]

\* server.ts:154-323: validateTextDocument from the point where the await
\* of the settings promise ends with outcome
Resume(s, objs, w, outcome) ==
    IF outcome = Rejected
    THEN [s EXCEPT !.done = Append(@, Ended(s, objs, w, "failed"))]
    ELSE IF ~outcome.value.diagnostics.enable
    THEN [s EXCEPT !.done = Append(@, Ended(s, objs, w, "disabled"))]
    ELSE PublishPass(s, objs, w)

\* server.ts:153-154: validateTextDocument up to its await.  A pass whose
\* promise is already settled resumes in a microtask, before the next event,
\* so it ends within the step of the event that started it.
validateTextDocument(s, objs, g, doc) ==
    LET r == getDocumentSettings(s, g, objs[doc].uri)
        w == [doc |-> doc, promise |-> r.id]
    IN  IF r.state = Pending
        THEN [r.s EXCEPT !.passes = Append(@, w)]
        ELSE Resume(r.s, objs, w, r.state)

\* documents.all().forEach(validateTextDocument)
RECURSIVE ValidateAll(_, _, _, _)
ValidateAll(s, objs, g, ds) ==
    IF ds = <<>> THEN s
    ELSE ValidateAll(validateTextDocument(s, objs, g, Head(ds).doc), objs, g, Tail(ds))

\* the continuations of the passes awaiting one promise run in await order
RECURSIVE ResumeAll(_, _, _, _)
ResumeAll(s, objs, waiting, outcome) ==
    IF waiting = <<>> THEN s
    ELSE ResumeAll(Resume(s, objs, Head(waiting), outcome), objs, Tail(waiting), outcome)

IsOpen(u) == \E k \in DOMAIN documents : documents[k].uri = u

DocOf(u) == (CHOOSE k \in Range(documents) : k.uri = u).doc

FreshObject ==
    CHOOSE o \in 1..(Cardinality(DOMAIN objects) + 1) :
        /\ o \notin DOMAIN objects
        /\ \A q \in 1..(o - 1) : q \in DOMAIN objects

\* first occurrences, in order
RECURSIVE Distinct(_)
Distinct(seq) ==
    IF seq = << >> THEN << >>
    ELSE <<Head(seq)>> \o Distinct(SelectSeq(Tail(seq), LAMBDA x : x # Head(seq)))

IndexIn(seq, x) == CHOOSE k \in DOMAIN seq : seq[k] = x

\* Promise and object ids carry no meaning beyond identity.  After each step
\* the reachable promises are renumbered in the order the suspended passes and
\* then the cache (by uri) mention them, the reachable objects in the order
\* the manager and then the suspended passes mention them; what nothing
\* mentions any more is dropped.
PromiseOrder(s) ==
    Distinct([k \in DOMAIN s.passes |-> s.passes[k].promise]
             \o [k \in 1..Len(SelectSeq(UriSeq, LAMBDA u : u \in DOMAIN s.documentSettings))
                 |-> s.documentSettings[SelectSeq(UriSeq,
                         LAMBDA u : u \in DOMAIN s.documentSettings)[k]]])

ObjectOrder(ds, ps) ==
    Distinct([k \in DOMAIN ds |-> ds[k].doc] \o [k \in DOMAIN ps |-> ps[k].doc])

\* the bounds of the model: reachable promises and suspended passes
Bounded(s) ==
    /\ Len(PromiseOrder(s)) <= MaxPromises
    /\ Len(s.passes) <= MaxPasses

\* a uri stays clean while it is never closed and all its passes publish
StillClean(s) ==
    [u \in Uris |-> clean[u] /\ \A k \in DOMAIN s.done :
                                   s.done[k].uri = u => s.done[k].result = "published"]

Commit(s, objs, ds) ==
    LET po == PromiseOrder(s)
        oo == ObjectOrder(ds, s.passes)
    IN  /\ Bounded(s)
        /\ documentSettings' =
               [u \in DOMAIN s.documentSettings |-> IndexIn(po, s.documentSettings[u])]
        /\ promises' = [k \in DOMAIN po |-> s.promises[po[k]]]
        /\ passes' = [k \in DOMAIN s.passes |->
                          [doc |-> IndexIn(oo, s.passes[k].doc),
                           promise |-> IndexIn(po, s.passes[k].promise)]]
        /\ published' = s.published
        /\ sent' = s.sent
        /\ done' = s.done
        /\ documents' = [k \in DOMAIN ds |-> [ds[k] EXCEPT !.doc = IndexIn(oo, @)]]
        /\ objects' = [k \in DOMAIN oo |-> objs[oo[k]]]

ServerInit ==
    /\ hasConfigurationCapability \in BOOLEAN
    /\ globalSettings = defaultSettings
    /\ documentSettings = << >>
    /\ promises = << >>
    /\ documents = << >>
    /\ objects = << >>
    /\ passes = << >>
    /\ published = [u \in Uris |-> << >>]
    /\ sent = << >>
    /\ done = << >>
    /\ clean = [u \in Uris |-> TRUE]

\* didOpen: the manager creates the TextDocument and fires onDidChangeContent
\* (server.ts:148-150)
Open(u, text) ==
    /\ ~IsOpen(u)
    /\ LET o    == FreshObject
           objs == (o :> [uri |-> u, text |-> text]) @@ objects
           s    == validateTextDocument(Now, objs, globalSettings, o)
       IN  /\ Commit(s, objs, Append(documents, [uri |-> u, doc |-> o]))
           /\ clean' = StillClean(s)
    /\ UNCHANGED <<vvars, hvars, cvars, hasConfigurationCapability, globalSettings>>

\* variant: the manager hands the handler a new TextDocument for each change
ChangeReplacing(u, text) ==
    /\ IsOpen(u)
    /\ LET o    == FreshObject
           objs == (o :> [uri |-> u, text |-> text]) @@ objects
           s    == validateTextDocument(Now, objs, globalSettings, o)
       IN  /\ Commit(s, objs, [k \in DOMAIN documents |->
                                  IF documents[k].uri = u
                                  THEN [uri |-> u, doc |-> o] ELSE documents[k]])
           /\ clean' = StillClean(s)
    /\ UNCHANGED <<vvars, hvars, cvars, hasConfigurationCapability, globalSettings>>

\* didChange: the manager updates the TextDocument in place and fires
\* onDidChangeContent (server.ts:148-150)
Change(u, text) ==
    /\ IsOpen(u)
    /\ LET objs == [objects EXCEPT ![DocOf(u)].text = text]
           s    == validateTextDocument(Now, objs, globalSettings, DocOf(u))
       IN  /\ Commit(s, objs, documents)
           /\ clean' = StillClean(s)
    /\ UNCHANGED <<vvars, hvars, cvars, hasConfigurationCapability, globalSettings>>

\* variant: onDidClose also drops the suspended passes of the document
CloseCancelling(u) ==
    /\ IsOpen(u)
    /\ LET s == [Now EXCEPT !.documentSettings = Restrict(@, DOMAIN @ \ {u}),
                            !.passes = SelectSeq(@, LAMBDA w : objects[w.doc].uri # u)]
       IN  Commit(s, objects, SelectSeq(documents, LAMBDA d : d.uri # u))
    /\ clean' = [clean EXCEPT ![u] = FALSE]
    /\ UNCHANGED <<vvars, hvars, cvars, hasConfigurationCapability, globalSettings>>

\* variant: onDidClose leaves the cache as it is
CloseKeeping(u) ==
    /\ IsOpen(u)
    /\ Commit(Now, objects, SelectSeq(documents, LAMBDA d : d.uri # u))
    /\ clean' = [clean EXCEPT ![u] = FALSE]
    /\ UNCHANGED <<vvars, hvars, cvars, hasConfigurationCapability, globalSettings>>

\* variant: onDidClose clears the whole cache
CloseClearing(u) ==
    /\ IsOpen(u)
    /\ LET s == [Now EXCEPT !.documentSettings = << >>]
       IN  Commit(s, objects, SelectSeq(documents, LAMBDA d : d.uri # u))
    /\ clean' = [clean EXCEPT ![u] = FALSE]
    /\ UNCHANGED <<vvars, hvars, cvars, hasConfigurationCapability, globalSettings>>

\* didClose: the manager forgets the document, then onDidClose (server.ts:144-146)
Close(u) ==
    /\ IsOpen(u)
    /\ LET s == [Now EXCEPT !.documentSettings = Restrict(@, DOMAIN @ \ {u})]
       IN  Commit(s, objects, SelectSeq(documents, LAMBDA d : d.uri # u))
    /\ clean' = [clean EXCEPT ![u] = FALSE]
    /\ UNCHANGED <<vvars, hvars, cvars, hasConfigurationCapability, globalSettings>>

\* variant: the notification revalidates the first open document only
ChangeConfigurationFirstOnly(stellar) ==
    LET g == IF hasConfigurationCapability THEN globalSettings
             ELSE IF stellar = undefined THEN defaultSettings ELSE stellar
        cleared == IF hasConfigurationCapability
                   THEN Collect([Now EXCEPT !.documentSettings = << >>])
                   ELSE Now
        s == ValidateAll(cleared, objects, g, SubSeq(documents, 1, Min(1, Len(documents))))
    IN  /\ Commit(s, objects, documents)
        /\ clean' = StillClean(s)
        /\ globalSettings' = g
        /\ UNCHANGED <<vvars, hvars, cvars, hasConfigurationCapability>>

\* variant: the notification leaves the cache as it is
ChangeConfigurationKeeping(stellar) ==
    LET g == IF hasConfigurationCapability THEN globalSettings
             ELSE IF stellar = undefined THEN defaultSettings ELSE stellar
        s == ValidateAll(Now, objects, g, documents)
    IN  /\ Commit(s, objects, documents)
        /\ clean' = StillClean(s)
        /\ globalSettings' = g
        /\ UNCHANGED <<vvars, hvars, cvars, hasConfigurationCapability>>

\* onDidChangeConfiguration (server.ts:116-125); stellar is change.settings.stellar,
\* undefined when the notification carries no stellar section
ChangeConfiguration(stellar) ==
    LET g == IF hasConfigurationCapability THEN globalSettings
             ELSE IF stellar = undefined THEN defaultSettings ELSE stellar
        cleared == IF hasConfigurationCapability
                   THEN Collect([Now EXCEPT !.documentSettings = << >>])
                   ELSE Now
        s == ValidateAll(cleared, objects, g, documents)
    IN  /\ Commit(s, objects, documents)
        /\ clean' = StillClean(s)
        /\ globalSettings' = g
        /\ UNCHANGED <<vvars, hvars, cvars, hasConfigurationCapability>>

\* the client's answer to the getConfiguration request behind promise p
\* arrives: the promise settles and the passes awaiting it run
SettleSettings(p, outcome) ==
    /\ p \in DOMAIN promises
    /\ promises[p] = Pending
    /\ LET settled == [Now EXCEPT !.promises[p] = outcome,
                                  !.passes = SelectSeq(@, LAMBDA w : w.promise # p)]
           s == ResumeAll(settled, objects, SelectWaiting(passes, p), outcome)
       IN  /\ Commit(s, objects, documents)
           /\ clean' = StillClean(s)
    /\ UNCHANGED <<vvars, hvars, cvars, hasConfigurationCapability, globalSettings>>

Next ==
    \/ \E u \in Uris, text \in TextSet : Open(u, text)
    \/ \E u \in Uris, text \in TextSet : Change(u, text)
    \/ \E u \in Uris : Close(u)
    \/ \E stellar \in SettingsValues \cup {undefined} : ChangeConfiguration(stellar)
    \/ \E p \in 1..MaxPromises, outcome \in Outcomes : SettleSettings(p, outcome)

\* the variables of the other specifications, at rest
ValidateIdle == vtext = "" /\ vresult = << >>

HoverIdle == hdoc = << >> /\ hpos = [line |-> 0, character |-> 0] /\ hresult = << >>

CompleteIdle == ccalls = << >> /\ cresolved = << >>

Init ==
    /\ ServerInit
    /\ ValidateIdle
    /\ HoverIdle
    /\ CompleteIdle

Spec == Init /\ [][Next]_vars

(***************************************************************************)
(* SpecValidate: one run of the scan of validateTextDocument on a text     *)
(* built from LineSet, or on a scenario document.                          *)
(***************************************************************************)
AppendLine(l) ==
    /\ vresult = << >>
    /\ Len(split(vtext)) < MaxLines
    /\ vtext' = vtext \o "\n" \o l
    /\ UNCHANGED <<vresult, hvars, cvars, svars>>

\* server.ts:160-322 with diagnostics enabled: vresult holds the array sent
Validate ==
    /\ vresult = << >>
    /\ vresult' = <<ValidateText(vtext)>>
    /\ UNCHANGED <<vtext, hvars, cvars, svars>>

ValidateInit ==
    /\ ServerInit
    /\ ~hasConfigurationCapability
    /\ vtext \in LineSet \cup ScenarioTexts \cup AttributedScenarioTexts \cup {QuickStart}
    /\ vresult = << >>
    /\ HoverIdle
    /\ CompleteIdle

ValidateNext ==
    \/ \E l \in LineSet : AppendLine(l)
    \/ Validate

SpecValidate == ValidateInit /\ [][ValidateNext]_vars

(***************************************************************************)
(* SpecRules: the scan on texts that exercise the data-type, require_auth, *)
(* unwrap and storage rules: built line by line from RuleLineSet, or one   *)
(* of the documents with a function body of a given length.                *)
(***************************************************************************)
MaxRuleLines == 3

RuleLineSet ==
    {"use soroban_sdk::Env;",
     "enum Kind { A }",
     "pub fn f(a: Address) {",
     "struct MyContract; impl MyContract {}",
     " pub fn g(a: Address) { env.storage().get(a).unwrap() }"}

\* n body lines without a brace and without the call
RECURSIVE Filler(_)
Filler(n) == IF n = 0 THEN "" ELSE "  let x = 1;\n" \o Filler(n - 1)

\* a function whose body calls require_auth() on the n-th line after the
\* `pub fn` line, the closing brace following
CallOnLine(n) ==
    "pub fn f(a: Address) {\n" \o Filler(n - 1) \o "  a.require_auth();\n}"

\* a function whose body closes before the call
BraceBeforeCall == "pub fn f(a: Address) {\n}\n  a.require_auth();"

BodyTexts == {CallOnLine(n) : n \in {1, 9, 10, 11}} \cup {BraceBeforeCall}

\* a declaration on the import line itself
SameLineImport == "use soroban_sdk::Env; enum Kind { A }"

\* a data type with its attribute on the line above
AttributedType == "use soroban_sdk::Env;\n#[contracttype]\nenum Kind { A }"

AppendRuleLine(l) ==
    /\ vresult = << >>
    /\ Len(split(vtext)) < MaxRuleLines
    /\ vtext' = vtext \o "\n" \o l
    /\ UNCHANGED <<vresult, hvars, cvars, svars>>

RulesInit ==
    /\ ServerInit
    /\ ~hasConfigurationCapability
    /\ vtext \in RuleLineSet \cup BodyTexts \cup {SameLineImport, AttributedType}
    /\ vresult = << >>
    /\ HoverIdle
    /\ CompleteIdle

RulesNext ==
    \/ \E l \in RuleLineSet : AppendRuleLine(l)
    \/ Validate

SpecRules == RulesInit /\ [][RulesNext]_vars

(***************************************************************************)
(* Hover (server.ts:845-1276)                                              *)
(***************************************************************************)
null == [null |-> TRUE]

\* \w of the regular expression: ASCII letters, digits and the underscore
WordChars ==
    {"a","b","c","d","e","f","g","h","i","j","k","l","m","n","o","p","q","r","s","t","u","v","w","x","y","z"} \cup
    {"A","B","C","D","E","F","G","H","I","J","K","L","M","N","O","P","Q","R","S","T","U","V","W","X","Y","Z"} \cup
    {"0","1","2","3","4","5","6","7","8","9"} \cup {"_"}

\* the character at a 0-based offset
CharAt(text, k) == SubSeq(text, k + 1, k + 1)

IsWordChar(text, k) == k < Len(text) /\ CharAt(text, k) \in WordChars

\* document.offsetAt(position) (server.ts:853), for "\n" line breaks
RECURSIVE LineOffset(_, _)
LineOffset(lines, n) ==
    IF n = 0 THEN 0 ELSE LineOffset(lines, n - 1) + Len(lines[n]) + 1

offsetAt(text, position) ==
    LET lines == split(text) IN
    IF position.line >= Len(lines) THEN Len(text)
    ELSE IF position.line < 0 THEN 0
    ELSE LET lineOffset == LineOffset(lines, position.line)
             nextLineOffset == IF position.line + 1 < Len(lines)
                               THEN LineOffset(lines, position.line + 1)
                               ELSE Len(text)
         IN  IF position.character <= 0 THEN lineOffset
             ELSE Min(lineOffset + position.character, nextLineOffset)

\* where the next match of /\b\w+\b/g starts, searching from lastIndex
\* (-1: no match); lastIndex is 0 or the end of the previous match
RECURSIVE MatchIndex(_, _)
MatchIndex(text, lastIndex) ==
    IF lastIndex >= Len(text) THEN -1
    ELSE IF IsWordChar(text, lastIndex) THEN lastIndex
    ELSE MatchIndex(text, lastIndex + 1)

\* the length of the match that starts at index: \w+ is greedy
RECURSIVE MatchLength(_, _)
MatchLength(text, index) ==
    IF IsWordChar(text, index) THEN 1 + MatchLength(text, index + 1) ELSE 0

\* the while loop of getWordRangeAtPosition (server.ts:881-890)
RECURSIVE WordLoop(_, _, _)
WordLoop(text, offset, lastIndex) ==
    LET index == MatchIndex(text, lastIndex) IN
    IF index = -1 THEN null
    ELSE IF index <= offset /\ offset <= index + MatchLength(text, index)
    THEN [start |-> index, end |-> index + MatchLength(text, index)]
    ELSE WordLoop(text, offset, index + MatchLength(text, index))

\* variant: the range test excludes the first character of the match
\* (match.index < offset)
getWordRangeAfterStart(text, offset) ==
    LET r == WordLoop(text, offset, 0)
    IN  IF r # null /\ r.start = offset THEN null ELSE r

\* server.ts:877-891
getWordRangeAtPosition(text, offset) == WordLoop(text, offset, 0)

\* text.substring(start, end)
substring(text, start, end) == SubSeq(text, start + 1, end)

\* server.ts:894-1273: the documentation table; each entry is represented by
\* its heading line, which differs from entry to entry
stellarDocs ==
    ("Env" :> "## Env") @@
    ("Address" :> "## Address") @@
    ("Symbol" :> "## Symbol") @@
    ("Bytes" :> "## Bytes") @@
    ("Map" :> "## Map") @@
    ("Vec" :> "## Vec") @@
    ("contract" :> "## #[contract]") @@
    ("contractimpl" :> "## #[contractimpl]") @@
    ("contracttype" :> "## #[contracttype]") @@
    ("only_admin" :> "## #[only_admin] - OpenZeppelin") @@
    ("only_owner" :> "## #[only_owner] - OpenZeppelin") @@
    ("only_role" :> "## #[only_role] - OpenZeppelin") @@
    ("has_role" :> "## #[has_role] - OpenZeppelin") @@
    ("when_not_paused" :> "## #[when_not_paused] - OpenZeppelin") @@
    ("when_paused" :> "## #[when_paused] - OpenZeppelin") @@
    ("AccessControl" :> "## AccessControl - OpenZeppelin") @@
    ("Ownable" :> "## Ownable - OpenZeppelin") @@
    ("Pausable" :> "## Pausable - OpenZeppelin") @@
    ("FungibleToken" :> "## FungibleToken - OpenZeppelin") @@
    ("AllowList" :> "## AllowList - OpenZeppelin") @@
    ("BlockList" :> "## BlockList - OpenZeppelin") @@
    ("require_auth" :> "## require_auth()") @@
    ("panic_with_error" :> "## panic_with_error!") @@
    ("symbol_short" :> "## symbol_short!") @@
    ("default_impl" :> "## #[default_impl] - OpenZeppelin")

\* what every JavaScript object inherits from Object.prototype under a name
\* that is a \w+ word; all of these values are truthy and none is a string
ObjectPrototypeKeys ==
    {"constructor", "toString", "toLocaleString", "valueOf", "hasOwnProperty",
     "isPrototypeOf", "propertyIsEnumerable", "__proto__", "__defineGetter__",
     "__defineSetter__", "__lookupGetter__", "__lookupSetter__"}

Inherited(word) == "Object.prototype." \o word

\* server.ts:893-1276: stellarDocs[word] || null
getStellarInfo(word) ==
    IF word \in DOMAIN stellarDocs THEN [value |-> stellarDocs[word]]
    ELSE IF word \in ObjectPrototypeKeys THEN [value |-> Inherited(word)]
    ELSE null

MarkupKind == [PlainText |-> "plaintext", Markdown |-> "markdown"]

\* server.ts:845-875; doc is <<>> when documents.get(uri) is undefined
onHover(doc, position) ==
    IF doc = << >> THEN null
    ELSE LET text == doc[1]
             offset == offsetAt(text, position)
             wordRange == getWordRangeAtPosition(text, offset)
         IN  IF wordRange = null THEN null
             ELSE LET stellarInfo ==
                          getStellarInfo(substring(text, wordRange.start, wordRange.end))
                  IN  IF stellarInfo # null
                      THEN [contents |-> [kind |-> MarkupKind.Markdown,
                                          value |-> stellarInfo.value]]
                      ELSE null

(***************************************************************************)
(* SpecHover: one hover request at a position of a document                *)
(***************************************************************************)
HoverTexts ==
    {"Address x",
     "fn f(a: Address)",
     "Addresss address",
     "let v = Vec::new();\nv.push(Env)",
     "#[contract]\nstruct S;",
     "a.require_auth();",
     "x.toString()"}

\* the positions inside a text: every column of every line, the line end included
Positions(text) ==
    UNION {{[line |-> n, character |-> c] : c \in 0..Len(split(text)[n + 1])} :
              n \in 0..(Len(split(text)) - 1)}

Hover(position) ==
    /\ hresult = << >>
    /\ hpos' = position
    /\ hresult' = <<onHover(hdoc, position)>>
    /\ UNCHANGED <<hdoc, vvars, cvars, svars>>

HoverInit ==
    /\ ServerInit
    /\ ~hasConfigurationCapability
    /\ ValidateIdle
    /\ CompleteIdle
    /\ hdoc \in {<< >>} \cup {<<t>> : t \in HoverTexts}
    /\ hpos = [line |-> 0, character |-> 0]
    /\ hresult = << >>

HoverNext ==
    \E position \in (IF hdoc = << >> THEN {[line |-> 0, character |-> 0]}
                     ELSE Positions(hdoc[1])) : Hover(position)

SpecHover == HoverInit /\ [][HoverNext]_vars

(***************************************************************************)
(* Completion (server.ts:326-842)                                          *)
(***************************************************************************)
\* the kinds of the protocol that the candidates use
CompletionItemKind == [Method |-> 2, Function |-> 3, Class |-> 7, Snippet |-> 15]

\* server.ts:328-771: the array literal of onCompletion
completions ==
    << [label |-> "#[contract]", kind |-> CompletionItemKind.Snippet, data |-> 1,
      insertText |-> "#[contract]",
      documentation |-> "Stellar contract attribute"],
     [label |-> "#[contractimpl]", kind |-> CompletionItemKind.Snippet, data |-> 2,
      insertText |-> "#[contractimpl]",
      documentation |-> "Stellar contract implementation attribute"],
     [label |-> "#[contracttype]", kind |-> CompletionItemKind.Snippet, data |-> 3,
      insertText |-> "#[contracttype]",
      documentation |-> "Stellar contract type attribute"],
     [label |-> "#[contractmeta]", kind |-> CompletionItemKind.Snippet, data |-> 4,
      insertText |-> "#[contractmeta(\n    key = \"${1:key}\",\n    val = \"${2:value}\"\n)]",
      insertTextFormat |-> 2,
      documentation |-> "Stellar contract metadata attribute"],
     [label |-> "Env", kind |-> CompletionItemKind.Class, data |-> 5,
      documentation |-> "Stellar environment"],
     [label |-> "Address", kind |-> CompletionItemKind.Class, data |-> 6,
      documentation |-> "Stellar address type"],
     [label |-> "Symbol", kind |-> CompletionItemKind.Class, data |-> 7,
      documentation |-> "Stellar symbol type"],
     [label |-> "Bytes", kind |-> CompletionItemKind.Class, data |-> 8,
      documentation |-> "Stellar bytes type"],
     [label |-> "Map", kind |-> CompletionItemKind.Class, data |-> 9,
      documentation |-> "Stellar map type"],
     [label |-> "Vec", kind |-> CompletionItemKind.Class, data |-> 10,
      documentation |-> "Stellar vector type"],
     [label |-> "use soroban_sdk::{contract, contractimpl, Env};", kind |-> CompletionItemKind.Snippet, data |-> 11,
      insertText |-> "use soroban_sdk::{contract, contractimpl, Env};",
      documentation |-> "Common Stellar SDK imports"],
     [label |-> "use soroban_sdk::{contracttype, Address, Symbol};", kind |-> CompletionItemKind.Snippet, data |-> 12,
      insertText |-> "use soroban_sdk::{contracttype, Address, Symbol};",
      documentation |-> "Additional Stellar SDK imports"],
     [label |-> "env.storage().instance()", kind |-> CompletionItemKind.Method, data |-> 13,
      insertText |-> "env.storage().instance()",
      documentation |-> "Access instance storage"],
     [label |-> "env.storage().persistent()", kind |-> CompletionItemKind.Method, data |-> 14,
      insertText |-> "env.storage().persistent()",
      documentation |-> "Access persistent storage"],
     [label |-> "env.storage().temporary()", kind |-> CompletionItemKind.Method, data |-> 15,
      insertText |-> "env.storage().temporary()",
      documentation |-> "Access temporary storage"],
     [label |-> "env.ledger().timestamp()", kind |-> CompletionItemKind.Method, data |-> 16,
      insertText |-> "env.ledger().timestamp()",
      documentation |-> "Get current ledger timestamp"],
     [label |-> "env.ledger().sequence()", kind |-> CompletionItemKind.Method, data |-> 17,
      insertText |-> "env.ledger().sequence()",
      documentation |-> "Get current ledger sequence"],
     [label |-> "require_auth()", kind |-> CompletionItemKind.Method, data |-> 18,
      insertText |-> "require_auth()",
      documentation |-> "Require authentication for address"],
     [label |-> "symbol_short!", kind |-> CompletionItemKind.Function, data |-> 19,
      insertText |-> "symbol_short!(\"${1:symbol}\")",
      insertTextFormat |-> 2,
      documentation |-> "Create a short symbol (up to 14 characters)"],
     [label |-> "panic!", kind |-> CompletionItemKind.Function, data |-> 20,
      insertText |-> "panic!(\"${1:message}\")",
      insertTextFormat |-> 2,
      documentation |-> "Panic with a message"],
     [label |-> "#[only_admin]", kind |-> CompletionItemKind.Snippet, data |-> 21,
      insertText |-> "#[only_admin]",
      documentation |-> "OpenZeppelin: Restrict function to admin only"],
     [label |-> "#[only_owner]", kind |-> CompletionItemKind.Snippet, data |-> 22,
      insertText |-> "#[only_owner]",
      documentation |-> "OpenZeppelin: Restrict function to owner only"],
     [label |-> "#[only_role(${1:caller}, \"${2:role}\")]", kind |-> CompletionItemKind.Snippet, data |-> 23,
      insertText |-> "#[only_role(${1:caller}, \"${2:role}\")]",
      insertTextFormat |-> 2,
      documentation |-> "OpenZeppelin: Restrict function to specific role"],
     [label |-> "#[has_role(${1:caller}, \"${2:role}\")]", kind |-> CompletionItemKind.Snippet, data |-> 24,
      insertText |-> "#[has_role(${1:caller}, \"${2:role}\")]",
      insertTextFormat |-> 2,
      documentation |-> "OpenZeppelin: Check if caller has role (requires manual auth)"],
     [label |-> "#[has_any_role(${1:caller}, [${2:roles}])]", kind |-> CompletionItemKind.Snippet, data |-> 25,
      insertText |-> "#[has_any_role(${1:caller}, [\"${2:role1}\", \"${3:role2}\"])]",
      insertTextFormat |-> 2,
      documentation |-> "OpenZeppelin: Check if caller has any of the specified roles"],
     [label |-> "#[only_any_role(${1:caller}, [${2:roles}])]", kind |-> CompletionItemKind.Snippet, data |-> 26,
      insertText |-> "#[only_any_role(${1:caller}, [\"${2:role1}\", \"${3:role2}\"])]",
      insertTextFormat |-> 2,
      documentation |-> "OpenZeppelin: Restrict function to any of the specified roles"],
     [label |-> "#[when_not_paused]", kind |-> CompletionItemKind.Snippet, data |-> 27,
      insertText |-> "#[when_not_paused]",
      documentation |-> "OpenZeppelin: Function can only be called when contract is not paused"],
     [label |-> "#[when_paused]", kind |-> CompletionItemKind.Snippet, data |-> 28,
      insertText |-> "#[when_paused]",
      documentation |-> "OpenZeppelin: Function can only be called when contract is paused"],
     [label |-> "use stellar_access_control::{self as access_control, AccessControl};", kind |-> CompletionItemKind.Snippet, data |-> 29,
      insertText |-> "use stellar_access_control::{self as access_control, AccessControl};",
      documentation |-> "OpenZeppelin: Import access control module"],
     [label |-> "use stellar_access_control_macros::{has_role, only_admin, only_role};", kind |-> CompletionItemKind.Snippet, data |-> 30,
      insertText |-> "use stellar_access_control_macros::{has_role, only_admin, only_role};",
      documentation |-> "OpenZeppelin: Import access control macros"],
     [label |-> "use stellar_ownable::{set_owner, Ownable};", kind |-> CompletionItemKind.Snippet, data |-> 31,
      insertText |-> "use stellar_ownable::{set_owner, Ownable};",
      documentation |-> "OpenZeppelin: Import ownable module"],
     [label |-> "use stellar_ownable_macro::only_owner;", kind |-> CompletionItemKind.Snippet, data |-> 32,
      insertText |-> "use stellar_ownable_macro::only_owner;",
      documentation |-> "OpenZeppelin: Import ownable macro"],
     [label |-> "use stellar_pausable::{self as pausable, Pausable};", kind |-> CompletionItemKind.Snippet, data |-> 33,
      insertText |-> "use stellar_pausable::{self as pausable, Pausable};",
      documentation |-> "OpenZeppelin: Import pausable module"],
     [label |-> "use stellar_pausable_macros::{when_not_paused, when_paused};", kind |-> CompletionItemKind.Snippet, data |-> 34,
      insertText |-> "use stellar_pausable_macros::{when_not_paused, when_paused};",
      documentation |-> "OpenZeppelin: Import pausable macros"],
     [label |-> "use stellar_fungible::{Base, FungibleToken};", kind |-> CompletionItemKind.Snippet, data |-> 35,
      insertText |-> "use stellar_fungible::{Base, FungibleToken};",
      documentation |-> "OpenZeppelin: Import fungible token module"],
     [label |-> "use stellar_fungible::allowlist::{AllowList, FungibleAllowList};", kind |-> CompletionItemKind.Snippet, data |-> 36,
      insertText |-> "use stellar_fungible::allowlist::{AllowList, FungibleAllowList};",
      documentation |-> "OpenZeppelin: Import allowlist extension"],
     [label |-> "use stellar_fungible::blocklist::{BlockList, FungibleBlockList};", kind |-> CompletionItemKind.Snippet, data |-> 37,
      insertText |-> "use stellar_fungible::blocklist::{BlockList, FungibleBlockList};",
      documentation |-> "OpenZeppelin: Import blocklist extension"],
     [label |-> "use stellar_fungible::burnable::FungibleBurnable;", kind |-> CompletionItemKind.Snippet, data |-> 38,
      insertText |-> "use stellar_fungible::burnable::FungibleBurnable;",
      documentation |-> "OpenZeppelin: Import burnable extension"],
     [label |-> "use stellar_non_fungible::{Base, NonFungibleToken};", kind |-> CompletionItemKind.Snippet, data |-> 39,
      insertText |-> "use stellar_non_fungible::{Base, NonFungibleToken};",
      documentation |-> "OpenZeppelin: Import non-fungible token module"],
     [label |-> "use stellar_non_fungible::burnable::NonFungibleBurnable;", kind |-> CompletionItemKind.Snippet, data |-> 40,
      insertText |-> "use stellar_non_fungible::burnable::NonFungibleBurnable;",
      documentation |-> "OpenZeppelin: Import NFT burnable extension"],
     [label |-> "use stellar_default_impl_macro::default_impl;", kind |-> CompletionItemKind.Snippet, data |-> 41,
      insertText |-> "use stellar_default_impl_macro::default_impl;",
      documentation |-> "OpenZeppelin: Import default implementation macro"],
     [label |-> "access_control::set_admin(e, &admin);", kind |-> CompletionItemKind.Snippet, data |-> 42,
      insertText |-> "access_control::set_admin(e, &${1:admin});",
      insertTextFormat |-> 2,
      documentation |-> "OpenZeppelin: Set contract admin"],
     [label |-> "access_control::grant_role_no_auth(e, &admin, &user, &role);", kind |-> CompletionItemKind.Snippet, data |-> 43,
      insertText |-> "access_control::grant_role_no_auth(e, &${1:admin}, &${2:user}, &${3:role});",
      insertTextFormat |-> 2,
      documentation |-> "OpenZeppelin: Grant role without auth (use in constructor)"],
     [label |-> "set_owner(e, &owner);", kind |-> CompletionItemKind.Snippet, data |-> 44,
      insertText |-> "set_owner(e, &${1:owner});",
      insertTextFormat |-> 2,
      documentation |-> "OpenZeppelin: Set contract owner"],
     [label |-> "pausable::pause(e);", kind |-> CompletionItemKind.Snippet, data |-> 45,
      insertText |-> "pausable::pause(e);",
      documentation |-> "OpenZeppelin: Pause the contract"],
     [label |-> "pausable::unpause(e);", kind |-> CompletionItemKind.Snippet, data |-> 46,
      insertText |-> "pausable::unpause(e);",
      documentation |-> "OpenZeppelin: Unpause the contract"],
     [label |-> "pausable::paused(e)", kind |-> CompletionItemKind.Snippet, data |-> 47,
      insertText |-> "pausable::paused(e)",
      documentation |-> "OpenZeppelin: Check if contract is paused"],
     [label |-> "Base::mint(e, &to, amount);", kind |-> CompletionItemKind.Snippet, data |-> 48,
      insertText |-> "Base::mint(e, &${1:to}, ${2:amount});",
      insertTextFormat |-> 2,
      documentation |-> "OpenZeppelin: Mint tokens"],
     [label |-> "Base::burn(e, &from, amount);", kind |-> CompletionItemKind.Snippet, data |-> 49,
      insertText |-> "Base::burn(e, &${1:from}, ${2:amount});",
      insertTextFormat |-> 2,
      documentation |-> "OpenZeppelin: Burn tokens"],
     [label |-> "Base::transfer(e, &from, &to, amount);", kind |-> CompletionItemKind.Snippet, data |-> 50,
      insertText |-> "Base::transfer(e, &${1:from}, &${2:to}, ${3:amount});",
      insertTextFormat |-> 2,
      documentation |-> "OpenZeppelin: Transfer tokens"],
     [label |-> "AllowList::allow_user(e, &user);", kind |-> CompletionItemKind.Snippet, data |-> 51,
      insertText |-> "AllowList::allow_user(e, &${1:user});",
      insertTextFormat |-> 2,
      documentation |-> "OpenZeppelin: Allow user in allowlist"],
     [label |-> "AllowList::disallow_user(e, &user);", kind |-> CompletionItemKind.Snippet, data |-> 52,
      insertText |-> "AllowList::disallow_user(e, &${1:user});",
      insertTextFormat |-> 2,
      documentation |-> "OpenZeppelin: Disallow user in allowlist"],
     [label |-> "BlockList::block_user(e, &user);", kind |-> CompletionItemKind.Snippet, data |-> 53,
      insertText |-> "BlockList::block_user(e, &${1:user});",
      insertTextFormat |-> 2,
      documentation |-> "OpenZeppelin: Block user in blocklist"],
     [label |-> "BlockList::unblock_user(e, &user);", kind |-> CompletionItemKind.Snippet, data |-> 54,
      insertText |-> "BlockList::unblock_user(e, &${1:user});",
      insertTextFormat |-> 2,
      documentation |-> "OpenZeppelin: Unblock user in blocklist"],
     [label |-> "#[default_impl]\n#[contractimpl]\nimpl AccessControl for Contract {}", kind |-> CompletionItemKind.Snippet, data |-> 55,
      insertText |-> "#[default_impl]\n#[contractimpl]\nimpl AccessControl for ${1:Contract} {}",
      insertTextFormat |-> 2,
      documentation |-> "OpenZeppelin: Default AccessControl implementation"],
     [label |-> "#[default_impl]\n#[contractimpl]\nimpl Ownable for Contract {}", kind |-> CompletionItemKind.Snippet, data |-> 56,
      insertText |-> "#[default_impl]\n#[contractimpl]\nimpl Ownable for ${1:Contract} {}",
      insertTextFormat |-> 2,
      documentation |-> "OpenZeppelin: Default Ownable implementation"],
     [label |-> "#[default_impl]\n#[contractimpl]\nimpl FungibleToken for Contract {}", kind |-> CompletionItemKind.Snippet, data |-> 57,
      insertText |-> "#[default_impl]\n#[contractimpl]\nimpl FungibleToken for ${1:Contract} {\n    type ContractType = ${2:Base};\n}",
      insertTextFormat |-> 2,
      documentation |-> "OpenZeppelin: Default FungibleToken implementation"],
     [label |-> "#[default_impl]\n#[contractimpl]\nimpl FungibleBurnable for Contract {}", kind |-> CompletionItemKind.Snippet, data |-> 58,
      insertText |-> "#[default_impl]\n#[contractimpl]\nimpl FungibleBurnable for ${1:Contract} {}",
      insertTextFormat |-> 2,
      documentation |-> "OpenZeppelin: Default FungibleBurnable implementation"]>>

\* variant: the candidates are filtered by the cursor column, snippets being
\* offered at the start of a line only
onCompletionAtColumn(textDocumentPosition) ==
    IF textDocumentPosition.position.character = 0 THEN completions
    ELSE SelectSeq(completions, LAMBDA item : item.kind # CompletionItemKind.Snippet)

\* server.ts:326-775
onCompletion(textDocumentPosition) == completions

\* server.ts:779-839: the chain of tests on item.data, one entry per branch
resolutions ==
    (1 :> [detail |-> "Stellar Contract Attribute",
            documentation |-> "Marks a struct as a Stellar contract"]) @@
    (2 :> [detail |-> "Stellar Contract Implementation Attribute",
            documentation |-> "Marks an impl block as a Stellar contract implementation"]) @@
    (3 :> [detail |-> "Stellar Contract Type Attribute",
            documentation |-> "Marks a type as a Stellar contract type"]) @@
    (4 :> [detail |-> "Stellar Contract Metadata Attribute",
            documentation |-> "Adds metadata to a Stellar contract"]) @@
    (5 :> [detail |-> "Stellar Environment",
            documentation |-> "The Stellar environment provides access to host functions"]) @@
    (6 :> [detail |-> "Stellar Address",
            documentation |-> "Represents a Stellar address"]) @@
    (7 :> [detail |-> "Stellar Symbol",
            documentation |-> "Represents a symbol in Stellar"]) @@
    (8 :> [detail |-> "Stellar Bytes",
            documentation |-> "Arbitrary byte data in Stellar"]) @@
    (9 :> [detail |-> "Stellar Map",
            documentation |-> "A key-value mapping in Stellar"]) @@
    (10 :> [detail |-> "Stellar Vec",
            documentation |-> "A vector (array) type in Stellar"]) @@
    (11 :> [detail |-> "Basic Stellar SDK Imports",
            documentation |-> "Common imports for Stellar contract development"]) @@
    (12 :> [detail |-> "Additional Stellar SDK Imports",
            documentation |-> "Additional imports for Stellar contract development"]) @@
    (13 :> [detail |-> "Instance Storage",
            documentation |-> "Access to instance storage (lifetime of contract instance)"]) @@
    (14 :> [detail |-> "Persistent Storage",
            documentation |-> "Access to persistent storage (survives contract updates)"]) @@
    (15 :> [detail |-> "Temporary Storage",
            documentation |-> "Access to temporary storage (lifetime of transaction)"]) @@
    (16 :> [detail |-> "Ledger Timestamp",
            documentation |-> "Get the current ledger timestamp"]) @@
    (17 :> [detail |-> "Ledger Sequence",
            documentation |-> "Get the current ledger sequence number"]) @@
    (18 :> [detail |-> "Require Authentication",
            documentation |-> "Require authentication for the address"]) @@
    (19 :> [detail |-> "Short Symbol Macro",
            documentation |-> "Create a short symbol (up to 14 characters)"]) @@
    (20 :> [detail |-> "Panic Macro",
            documentation |-> "Panic with a message"])

\* variant: the description is appended to the documentation the item carries
onCompletionResolveAppending(item) ==
    IF item.data \in DOMAIN resolutions
    THEN [detail |-> resolutions[item.data].detail,
          documentation |-> item.documentation \o " " \o resolutions[item.data].documentation]
         @@ item
    ELSE item

\* server.ts:777-842: the branch taken assigns detail and documentation,
\* the other properties of the item are kept
onCompletionResolve(item) ==
    IF item.data \in DOMAIN resolutions
    THEN resolutions[item.data] @@ item
    ELSE item

(***************************************************************************)
(* SpecComplete: completion requests at positions of documents, and a      *)
(* candidate of the last answer resolved again and again                   *)
(***************************************************************************)
MaxCalls == 2
MaxResolves == 2

\* the requests of the modelled client
CompletionParams ==
    {[textDocument |-> [uri |-> u], position |-> [line |-> n, character |-> n]] :
        u \in Uris, n \in {0, 3}}

Complete(textDocumentPosition) ==
    /\ cresolved = << >>
    /\ Len(ccalls) < MaxCalls
    /\ ccalls' = Append(ccalls, [params |-> textDocumentPosition,
                                 result |-> onCompletion(textDocumentPosition)])
    /\ UNCHANGED <<cresolved, vvars, hvars, svars>>

\* the client picks candidate k of the last answer
Pick(k) ==
    /\ cresolved = << >>
    /\ ccalls # << >>
    /\ k \in DOMAIN ccalls[Len(ccalls)].result
    /\ cresolved' = <<ccalls[Len(ccalls)].result[k]>>
    /\ UNCHANGED <<ccalls, vvars, hvars, svars>>

\* completionItem/resolve on the item as the last resolution left it
ResolveItem ==
    /\ cresolved # << >>
    /\ Len(cresolved) <= MaxResolves
    /\ cresolved' = Append(cresolved, onCompletionResolve(cresolved[Len(cresolved)]))
    /\ UNCHANGED <<ccalls, vvars, hvars, svars>>

CompleteInit ==
    /\ ServerInit
    /\ ~hasConfigurationCapability
    /\ ValidateIdle
    /\ HoverIdle
    /\ CompleteIdle

CompleteNext ==
    \/ \E textDocumentPosition \in CompletionParams : Complete(textDocumentPosition)
    \/ \E k \in 1..Len(completions) : Pick(k)
    \/ ResolveItem

SpecComplete == CompleteInit /\ [][CompleteNext]_vars

(***************************************************************************)
(* Properties of the scan (checked under SpecValidate)                     *)
(***************************************************************************)
Validated == vresult # << >>

Result == vresult[1]

VLines == split(vtext)

\* line i (0-based) is a declaration line whose preceding line lacks attr
DeclarationWithout(i, keyword, attr) ==
    /\ includes(VLines[i + 1], keyword)
    /\ includes(VLines[i + 1], "Contract")
    /\ ~(i > 0 /\ includes(VLines[i], attr))

Unattributed(i) ==
    \/ DeclarationWithout(i, "struct", "#[contract]")
    \/ DeclarationWithout(i, "impl", "#[contractimpl]")

ErrorsAt(i) ==
    {k \in DOMAIN Result : /\ Result[k].severity = DiagnosticSeverity.Error
                           /\ Result[k].range.start.line = i}

WithMessage(msgs) == {k \in DOMAIN Result : Result[k].message \in msgs}

\* C1 as stated: a declaration line without its attribute on the preceding
\* line carries exactly one error-severity diagnostic.
C1_ExactlyOneErrorAtLine ==
    Validated =>
        \A i \in 0..(Len(VLines) - 1) :
            Unattributed(i) => Cardinality(ErrorsAt(i)) = 1

ExactlyOneLineError(i, msg) ==
    /\ Cardinality({k \in WithMessage({msg}) : Result[k].range.start.line = i}) = 1
    /\ \E k \in DOMAIN Result :
           Result[k] = Diag(DiagnosticSeverity.Error, i, 0, Len(VLines[i + 1]), msg)

\* C1 amended: a declaration line without its attribute on the preceding line
\* carries exactly one error of that declaration's per-line rule, spanning the
\* whole line; errors of other rules may be anchored at the same line.
C1_OneErrorPerMissingAttribute ==
    Validated =>
        \A i \in 0..(Len(VLines) - 1) :
            /\ DeclarationWithout(i, "struct", "#[contract]")
                   => ExactlyOneLineError(i, MsgStruct)
            /\ DeclarationWithout(i, "impl", "#[contractimpl]")
                   => ExactlyOneLineError(i, MsgImpl)

C1_Witness ==
    /\ Validated
    /\ \E i, j \in 0..(Len(VLines) - 1) :
           /\ i > 0
           /\ DeclarationWithout(i, "struct", "#[contract]")
           /\ DeclarationWithout(j, "impl", "#[contractimpl]")
           /\ ExactlyOneLineError(i, MsgStruct)

StructAttributeErrors ==
    {k \in WithMessage({MsgStruct, MsgGlobalStruct}) :
         Result[k].severity = DiagnosticSeverity.Error}

ImplAttributeErrors ==
    {k \in WithMessage({MsgImpl, MsgGlobalImpl}) :
         Result[k].severity = DiagnosticSeverity.Error}

\* C2 as stated: the scenario document gets one error for the missing struct
\* attribute and one for the missing impl attribute, two in total.
C2_TwoAttributeErrors ==
    (Validated /\ vtext \in ScenarioTexts) =>
        /\ Cardinality(StructAttributeErrors) = 1
        /\ Cardinality(ImplAttributeErrors) = 1

\* C2 amended: the scenario document gets exactly four diagnostics, all
\* errors: the per-line struct error on the struct line, the per-line impl
\* error on the impl line, then the two whole-document errors at 0:0.
C2_FourAttributeErrors ==
    (Validated /\ vtext \in ScenarioTexts) =>
        LET i == CHOOSE n \in 0..(Len(VLines) - 1) : VLines[n + 1] = "struct MyContract;"
        IN  Result = <<Diag(DiagnosticSeverity.Error, i, 0, 18, MsgStruct),
                       Diag(DiagnosticSeverity.Error, i + 1, 0, 17, MsgImpl),
                       Diag(DiagnosticSeverity.Error, 0, 0, 0, MsgGlobalStruct),
                       Diag(DiagnosticSeverity.Error, 0, 0, 0, MsgGlobalImpl)>>

C2_Witness ==
    /\ Validated
    /\ vtext \in ScenarioTexts
    /\ Cardinality(StructAttributeErrors) = 2
    /\ Cardinality(ImplAttributeErrors) = 2

\* C3 as stated: a missing-attribute diagnostic (per line or whole-document)
\* appears only in a document that contains a `use soroban_sdk` import.
C3_AttributeErrorsNeedImport ==
    Validated =>
        (WithMessage({MsgStruct, MsgImpl, MsgGlobalStruct, MsgGlobalImpl}) # {}
             => includes(vtext, "use soroban_sdk"))

\* the dialect markers of the claim: the import, the contract attributes, the
\* SDK type names and the SDK call idioms
DialectMarkers ==
    {"soroban_sdk", "#[contract", "Env", "Address", "Symbol", "Bytes", "Map",
     "Vec", "require_auth", "env.storage()", "symbol_short", "panic_with_error"}

\* C4 as stated: a document without any dialect marker gets no diagnostic.
C4_NoMarkerNoDiagnostics ==
    (Validated /\ \A m \in DialectMarkers : ~includes(vtext, m)) => Result = << >>

AttributeMessages == {MsgStruct, MsgImpl, MsgGlobalStruct, MsgGlobalImpl}

\* C19: the scenario document with #[contract] on the line above the struct
\* line and #[contractimpl] on the line above the impl line gets no
\* missing-attribute error, neither from the per-line rules nor from the
\* whole-document checks.
C19_AttributedScenarioHasNoAttributeError ==
    (Validated /\ vtext \in AttributedScenarioTexts) => WithMessage(AttributeMessages) = {}

\* the attributed scenario with the import on its first line was scanned: both
\* declarations and the import were seen and nothing at all was reported
C19_Witness ==
    /\ Validated
    /\ vtext = "use soroban_sdk::Env;\n" \o AttributedScenario
    /\ \E i, j \in 1..(Len(VLines) - 1) :
           /\ includes(VLines[i + 1], "struct") /\ includes(VLines[i + 1], "Contract")
           /\ includes(VLines[i], "#[contract]")
           /\ includes(VLines[j + 1], "impl") /\ includes(VLines[j + 1], "Contract")
           /\ includes(VLines[j], "#[contractimpl]")
    /\ Result = << >>

\* line i (0-based) declares a struct
StructDeclaration(i) ==
    \E keyword \in {"struct ", "pub struct "} :
        /\ Len(trim(VLines[i + 1])) >= Len(keyword)
        /\ SubSeq(trim(VLines[i + 1]), 1, Len(keyword)) = keyword

DiagnosticsAt(i) == {k \in DOMAIN Result : Result[k].range.start.line = i}

\* C20 as stated: in a document that imports soroban_sdk, a struct declaration
\* whose preceding line is #[contract] gets no diagnostic on its line,
\* whatever the name of the struct.
C20_AttributedStructLineClean ==
    (Validated /\ includes(vtext, "use soroban_sdk")) =>
        \A i \in 1..(Len(VLines) - 1) :
            (StructDeclaration(i) /\ trim(VLines[i]) = "#[contract]")
                => DiagnosticsAt(i) = {}

\* C24 as stated: the range of an unwrap() warning starts at the index of
\* `unwrap()` in the raw line and ends 8 columns later, whatever the
\* indentation; every other per-line diagnostic spans the whole line.
C24_RangeCoversMatchedSpan ==
    Validated =>
        \A k \in DOMAIN Result :
            LET d == Result[k]
                line == VLines[d.range.start.line + 1]
            IN  \/ d.message \in {MsgGlobalStruct, MsgGlobalImpl}
                \/ /\ d.message = MsgUnwrap
                   /\ d.range.start.character = indexOf(line, "unwrap()")
                   /\ d.range.end.character = indexOf(line, "unwrap()") + 8
                \/ /\ d.message # MsgUnwrap
                   /\ d.range.start.character = 0
                   /\ d.range.end.character = Len(line)

(***************************************************************************)
(* Properties of the rules (checked under SpecRules)                       *)
(***************************************************************************)
\* the place of a rule in the order the loop body applies them; the
\* whole-document checks come after the loop
RuleRank ==
    (MsgStruct :> 1) @@ (MsgImpl :> 2) @@ (MsgContractType :> 3) @@
    (MsgRequireAuth :> 4) @@ (MsgUnwrap :> 5) @@ (MsgStorage :> 6) @@
    (MsgGlobalStruct :> 7) @@ (MsgGlobalImpl :> 8)

WholeDocument(d) == d.message \in {MsgGlobalStruct, MsgGlobalImpl}

\* the place of a diagnostic in production order: its line (past the last
\* line for a whole-document diagnostic), then its rule
Before(d, e) ==
    LET dl == IF WholeDocument(d) THEN Len(VLines) ELSE d.range.start.line
        el == IF WholeDocument(e) THEN Len(VLines) ELSE e.range.start.line
    IN  dl < el \/ (dl = el /\ RuleRank[d.message] < RuleRank[e.message])

\* line i matches the rule with this message (the rules whose condition
\* depends on line i and the line above it only)
Matches(i, msg) ==
    CASE msg = MsgStruct -> DeclarationWithout(i, "struct", "#[contract]")
      [] msg = MsgImpl -> DeclarationWithout(i, "impl", "#[contractimpl]")
      [] msg = MsgUnwrap -> /\ includes(VLines[i + 1], "unwrap()")
                            /\ ~includes(VLines[i + 1], "unwrap_or")
      [] msg = MsgStorage -> /\ includes(VLines[i + 1], "env.storage()")
                             /\ \A t \in {".instance()", ".persistent()", ".temporary()"} :
                                    ~includes(VLines[i + 1], t)

At(i, msg) == {k \in WithMessage({msg}) : Result[k].range.start.line = i}

\* C21: the diagnostics come in production order (by line, within a line in
\* the order struct, impl, contracttype, require_auth, unwrap, storage, the
\* whole-document diagnostics last), and every rule a line matches
\* contributes its own diagnostic for that line.
C21_ProductionOrderNoDedup ==
    Validated =>
        /\ \A k, m \in DOMAIN Result : k < m => Before(Result[k], Result[m])
        /\ \A i \in 0..(Len(VLines) - 1) :
               \A msg \in {MsgStruct, MsgImpl, MsgUnwrap, MsgStorage} :
                   Cardinality(At(i, msg)) = IF Matches(i, msg) THEN 1 ELSE 0

\* a line with three diagnostics (require_auth, unwrap, storage) is followed
\* by a line with two (struct, impl), and a whole-document diagnostic is last
C21_Witness ==
    /\ Validated
    /\ Len(Result) >= 6
    /\ \E i, j \in 0..(Len(VLines) - 1) :
           /\ i < j
           /\ Cardinality(DiagnosticsAt(i)) = 3
           /\ Cardinality(At(j, MsgStruct)) = 1 /\ Cardinality(At(j, MsgImpl)) = 1
    /\ WholeDocument(Result[Len(Result)])

\* line i declares a state-changing public function with an address parameter
AuthCandidate(i) ==
    /\ includes(VLines[i + 1], "pub fn")
    /\ ~includes(VLines[i + 1], "view")
    /\ includes(VLines[i + 1], "Address")

\* the lines after line i that contain p
After(i, p) == {j \in (i + 1)..(Len(VLines) - 1) : includes(VLines[j + 1], p)}

\* the first of them, the number of lines if there is none
FirstAfter(i, p) ==
    IF After(i, p) = {} THEN Len(VLines)
    ELSE CHOOSE j \in After(i, p) : \A m \in After(i, p) : j <= m

\* C22: for a `pub fn` line that mentions Address and not view, the warning
\* is raised whenever the first following line with a closing brace comes
\* strictly before the first following line with require_auth().
C22_LookaheadStopsAtBrace ==
    Validated =>
        \A i \in 0..(Len(VLines) - 1) :
            (AuthCandidate(i) /\ FirstAfter(i, "}") < FirstAfter(i, "require_auth()"))
                => Cardinality(At(i, MsgRequireAuth)) = 1

\* the function closes on the line after its declaration, require_auth()
\* follows within the next lines, and the declaration is warned about
C22_Witness ==
    /\ Validated
    /\ \E i \in 0..(Len(VLines) - 1) :
           /\ AuthCandidate(i)
           /\ FirstAfter(i, "}") = i + 1
           /\ FirstAfter(i, "require_auth()") = i + 2
           /\ Cardinality(At(i, MsgRequireAuth)) = 1

\* C23 as stated: the look-ahead from a `pub fn` line i reads lines i+1 to
\* i+10 (to the end of the document if that is nearer) until it meets
\* require_auth() or a closing brace, so the warning is absent exactly when
\* one of these lines has require_auth() with no closing brace on a line
\* between.
C23_WindowOfTenLines ==
    Validated =>
        \A i \in 0..(Len(VLines) - 1) :
            AuthCandidate(i) =>
                (At(i, MsgRequireAuth) = {}
                    <=> /\ FirstAfter(i, "require_auth()") <= Min(i + 10, Len(VLines) - 1)
                        /\ FirstAfter(i, "require_auth()") <= FirstAfter(i, "}"))

ErrorMessages == {MsgStruct, MsgImpl, MsgGlobalStruct, MsgGlobalImpl, MsgStorage}

WarningMessages == {MsgContractType, MsgRequireAuth, MsgUnwrap}

\* C25: the missing-attribute diagnostics (per line and whole-document) and
\* the storage diagnostic are errors, the contracttype, require_auth and
\* unwrap suggestions are warnings, and there is no other diagnostic.
C25_SeverityPartition ==
    Validated =>
        \A k \in DOMAIN Result :
            \/ /\ Result[k].message \in ErrorMessages
               /\ Result[k].severity = DiagnosticSeverity.Error
            \/ /\ Result[k].message \in WarningMessages
               /\ Result[k].severity = DiagnosticSeverity.Warning

\* one result with the storage error, the four missing-attribute errors and
\* two of the suggestions
C25_Witness ==
    /\ Validated
    /\ ErrorMessages \subseteq {Result[k].message : k \in DOMAIN Result}
    /\ {MsgRequireAuth, MsgUnwrap} \subseteq {Result[k].message : k \in DOMAIN Result}
    /\ \E k, m \in DOMAIN Result :
           Result[k].severity = DiagnosticSeverity.Error
           /\ Result[m].severity = DiagnosticSeverity.Warning

\* line i declares a data type without #[contracttype] on the line above
DataTypeWithoutAttribute(i) ==
    /\ includes(VLines[i + 1], "enum") \/ includes(VLines[i + 1], "struct")
    /\ ~includes(VLines[i + 1], "Contract")
    /\ ~(i > 0 /\ includes(VLines[i], "#[contracttype]"))

ImportAtOrBefore(i) == \E j \in 0..i : includes(VLines[j + 1], "use soroban_sdk")

\* C27: an enum/struct line without Contract and without #[contracttype]
\* above it gets the contracttype warning if and only if a line with
\* `use soroban_sdk` occurs at or before it.
C27_WarningNeedsEarlierImport ==
    Validated =>
        \A i \in 0..(Len(VLines) - 1) :
            DataTypeWithoutAttribute(i) =>
                (Cardinality(At(i, MsgContractType)) = 1 <=> ImportAtOrBefore(i))

\* the same declaration stands before and after the import line: the one
\* before it has no warning, the one after it has
C27_Witness ==
    /\ Validated
    /\ \E i, j \in 0..(Len(VLines) - 1) :
           /\ i < j
           /\ VLines[i + 1] = VLines[j + 1]
           /\ DataTypeWithoutAttribute(i) /\ DataTypeWithoutAttribute(j)
           /\ ~ImportAtOrBefore(i) /\ ImportAtOrBefore(j)
           /\ At(i, MsgContractType) = {}
           /\ Cardinality(At(j, MsgContractType)) = 1

\* C29: every diagnostic has the source tag stellar-lsp and a range on one
\* line of the document, 0 <= start column <= end column <= length of that
\* line; a whole-document diagnostic has the empty range at line 0, column 0.
C29_RangesInsideDocument ==
    Validated =>
        \A k \in DOMAIN Result :
            LET d == Result[k] IN
            /\ d.source = "stellar-lsp"
            /\ d.range.start.line = d.range.end.line
            /\ d.range.start.line \in 0..(Len(VLines) - 1)
            /\ 0 <= d.range.start.character
            /\ d.range.start.character <= d.range.end.character
            /\ d.range.end.character <= Len(VLines[d.range.start.line + 1])
            /\ WholeDocument(d) =>
                   d.range = [start |-> [line |-> 0, character |-> 0],
                              end |-> [line |-> 0, character |-> 0]]

\* a result with an unwrap() warning on an indented line after the first
\* line, and a whole-document diagnostic
C29_Witness ==
    /\ Validated
    /\ \E k, m \in DOMAIN Result :
           /\ Result[k].message = MsgUnwrap
           /\ Result[k].range.start.line > 0
           /\ trim(VLines[Result[k].range.start.line + 1])
                  # VLines[Result[k].range.start.line + 1]
           /\ Result[k].range.end.character = Result[k].range.start.character + 8
           /\ WholeDocument(Result[m])

(***************************************************************************)
(* Properties of the validation passes (checked under Spec)                *)
(***************************************************************************)
\* the entry of done that is the last one for its uri
LastFor(k) == \A m \in DOMAIN done : m > k => done[m].uri # done[k].uri

\* C5 as stated: after a pass whose resolved settings have
\* diagnostics.enable = false, the diagnostic set in effect for the uri is empty.
C5_DisabledLeavesEmptySet ==
    \A k \in DOMAIN done :
        (done[k].result = "disabled" /\ LastFor(k)) => published[done[k].uri] = << >>

\* C6 as stated: every pass issues exactly one notification for its uri,
\* carrying the complete diagnostic set of the text it read.
C6_OneNotificationPerPass ==
    /\ Len(sent) = Len(done)
    /\ \A k \in DOMAIN done :
           sent[k] = [uri |-> done[k].uri, diagnostics |-> ValidateText(done[k].text)]

Suspended(u) == \E k \in DOMAIN passes : objects[passes[k].doc].uri = u

\* the scan results of the texts of the model, computed once
Expected == [t \in TextSet |-> ValidateText(t)]

\* C7: for a document that was never closed and whose passes all ran with
\* diagnostics enabled, once no pass of it is suspended the diagnostic set in
\* effect is the scan of its current text.
C7_LatestTextWins ==
    \A u \in Uris :
        (IsOpen(u) /\ clean[u] /\ ~Suspended(u))
            => published[u] = Expected[objects[DocOf(u)].text]

\* a pass has just published after the passes called later for its document
\* (its settings promise had been superseded by a configuration change and
\* nothing of the document is suspended any more), and the document shows
\* diagnostics
C7_Witness ==
    \E k \in DOMAIN done :
        /\ done[k].superseded
        /\ done[k].result = "published"
        /\ IsOpen(done[k].uri) /\ clean[done[k].uri] /\ ~Suspended(done[k].uri)
        /\ published[done[k].uri] # << >>

\* C9 as stated: a failed settings lookup does not fail the pass (nor any
\* later pass of the document).
C9_LookupFailureTolerated ==
    \A k \in DOMAIN done : done[k].result # "failed"

OpenUris == {documents[k].uri : k \in DOMAIN documents}

\* C15: the settings cache has entries for open documents only; in particular
\* a closed document has none until it is opened again.
C15_CacheKeysAreOpen ==
    DOMAIN documentSettings \subseteq OpenUris

\* a document was closed while its pass was still waiting for the settings,
\* and the cache holds an entry, but only for the other, open document
C15_Witness ==
    /\ hasConfigurationCapability
    /\ \E u \in Uris :
           /\ ~IsOpen(u) /\ ~clean[u] /\ Suspended(u)
           /\ u \notin DOMAIN documentSettings
           /\ documentSettings # << >>

\* C16: with the configuration capability, after a configuration-change
\* notification is handled every cache entry is a request made while handling
\* it: it is pending, no pass suspended before the notification awaits it, and
\* the pass the notification started for its document does.
C16_ConfigurationChangeDiscardsCache ==
    [][(/\ hasConfigurationCapability
        /\ \E stellar \in SettingsValues \cup {undefined} : ChangeConfiguration(stellar))
       => /\ DOMAIN documentSettings' = OpenUris
          /\ \A u \in DOMAIN documentSettings' :
                 /\ promises'[documentSettings'[u]] = Pending
                 /\ \A k \in 1..Len(passes) : passes'[k].promise # documentSettings'[u]
                 /\ \E k \in (Len(passes) + 1)..Len(passes') :
                        /\ passes'[k].promise = documentSettings'[u]
                        /\ objects'[passes'[k].doc].uri = u]_vars

\* two passes of one TextDocument await different settings requests, and the
\* cache holds the request of the later pass: a notification came in between
C16_Witness ==
    /\ hasConfigurationCapability
    /\ \E j, k \in DOMAIN passes :
           /\ j < k
           /\ passes[j].doc = passes[k].doc
           /\ passes[j].promise # passes[k].promise
           /\ IsOpen(objects[passes[k].doc].uri)
           /\ documentSettings[objects[passes[k].doc].uri] = passes[k].promise

\* C17: without the configuration capability the cache stays empty, no
\* configuration request is made (no promise exists, no pass waits), and every
\* pass of a step ran on the global settings value.
C17_GlobalSettingsOnly ==
    ~hasConfigurationCapability =>
        /\ documentSettings = << >>
        /\ promises = << >>
        /\ passes = << >>
        /\ \A k \in DOMAIN done :
               done[k].result = IF globalSettings.diagnostics.enable
                                THEN "published" ELSE "disabled"

\* without the capability, a notification carried settings with diagnostics
\* disabled and the passes it started for two open documents ran on them
C17_Witness ==
    /\ ~hasConfigurationCapability
    /\ globalSettings # defaultSettings
    /\ Len(done) = 2
    /\ \A k \in DOMAIN done : done[k].result = "disabled"

\* what a step can do to the session of a uri: change its cache entry (its
\* presence, the state of its promise, the passes awaiting it), change its
\* published diagnostics, start a pass for it or end one
Entry(ds, ps, pa, u) ==
    IF u \in DOMAIN ds
    THEN <<ps[ds[u]], Len(SelectSeq(pa, LAMBDA w : w.promise = ds[u]))>>
    ELSE << >>

PassesOf(pa, objs, u) == Len(SelectSeq(pa, LAMBDA w : objs[w.doc].uri = u))

Touched(u) ==
    \/ Entry(documentSettings', promises', passes', u)
           # Entry(documentSettings, promises, passes, u)
    \/ published'[u] # published[u]
    \/ PassesOf(passes', objects', u) # PassesOf(passes, objects, u)
    \/ \E k \in DOMAIN done' : done'[k].uri = u
    \/ \E k \in DOMAIN sent' : sent'[k].uri = u

\* the step closes u / changes the text of u
Closes(u) == u \in OpenUris /\ u \notin OpenUris'

TextOf(ds, objs, u) == objs[(CHOOSE d \in Range(ds) : d.uri = u).doc].text

Edits(u) ==
    /\ u \in OpenUris /\ u \in OpenUris'
    /\ TextOf(documents', objects', u) # TextOf(documents, objects, u)

\* C18: a step that closes a document or changes its text leaves the cache
\* entry and the published diagnostics of every other uri as they were and
\* starts or ends no pass for it; a step that touches more than one uri is a
\* configuration change.
C18_SessionsIndependent ==
    [][/\ \A a \in Uris :
              (Closes(a) \/ Edits(a)) => \A b \in Uris \ {a} : ~Touched(b)
       /\ Cardinality({u \in Uris : Touched(u)}) > 1
              => \E stellar \in SettingsValues \cup {undefined} :
                     ChangeConfiguration(stellar)]_vars

\* one document is closed with a pass of it still suspended while the other
\* is open with a settled cache entry and published diagnostics
C18_Witness ==
    \E a, b \in Uris :
        /\ a # b
        /\ ~IsOpen(a) /\ Suspended(a)
        /\ IsOpen(b) /\ b \in DOMAIN documentSettings
        /\ promises[documentSettings[b]] # Pending
        /\ published[b] # << >>

\* how a pass ends on a settled settings promise
EndsAs(outcome) ==
    IF outcome = Rejected THEN "failed"
    ELSE IF outcome.value.diagnostics.enable THEN "published" ELSE "disabled"

\* C26: with the configuration capability, a pass started by a change of a
\* document whose uri has a cache entry sends no configuration request and
\* uses the cached resolution: it waits on the cached promise if that is
\* pending, and ends on its outcome at once if it is settled.
C26_PendingResolutionShared ==
    [][\A u \in Uris :
          (hasConfigurationCapability /\ Edits(u) /\ u \in DOMAIN documentSettings)
          => /\ Len(promises') = Len(promises)
             /\ u \in DOMAIN documentSettings'
             /\ promises'[documentSettings'[u]] = promises[documentSettings[u]]
             /\ IF promises[documentSettings[u]] = Pending
                THEN /\ done' = << >>
                     /\ Len(passes') = Len(passes) + 1
                     /\ passes'[Len(passes')].promise = documentSettings'[u]
                     /\ objects'[passes'[Len(passes')].doc].uri = u
                ELSE /\ Len(passes') = Len(passes)
                     /\ Len(done') = 1
                     /\ done'[1].uri = u
                     /\ done'[1].result = EndsAs(promises[documentSettings[u]])]_vars

\* two passes of one document wait on the same pending request, the one the
\* cache holds for its uri
C26_Witness ==
    /\ hasConfigurationCapability
    /\ \E j, k \in DOMAIN passes :
           /\ j < k
           /\ passes[j] = passes[k]
           /\ IsOpen(objects[passes[k].doc].uri)
           /\ documentSettings[objects[passes[k].doc].uri] = passes[k].promise
           /\ promises[passes[k].promise] = Pending

Ends(d, u) == Len(SelectSeq(d, LAMBDA e : e.uri = u))

\* C28: a step that closes a document publishes nothing, ends no pass and
\* drops none, and removes exactly the cache entry of the closed uri; a pass
\* of a closed document that leaves the suspended passes has run to its end,
\* and where it ran with diagnostics enabled it has published the scan of
\* the document's text for the uri.
C28_CloseNeitherCancelsNorPublishes ==
    [][/\ \A u \in Uris :
              Closes(u) => /\ published' = published
                           /\ sent' = << >>
                           /\ done' = << >>
                           /\ Len(passes') = Len(passes)
                           /\ PassesOf(passes', objects', u) = PassesOf(passes, objects, u)
                           /\ DOMAIN documentSettings' = DOMAIN documentSettings \ {u}
       /\ \A u \in Uris \ OpenUris' :
              /\ Ends(done', u) >= PassesOf(passes, objects, u) - PassesOf(passes', objects', u)
              /\ \A k \in DOMAIN done' :
                     (done'[k].uri = u /\ done'[k].result = "published")
                         => /\ published'[u] = Expected[done'[k].text]
                            /\ \E m \in DOMAIN sent' :
                                   sent'[m] = [uri |-> u,
                                               diagnostics |-> Expected[done'[k].text]]]_vars

\* a pass of a closed document has just published diagnostics for its uri
C28_Witness ==
    \E k \in DOMAIN done :
        /\ ~IsOpen(done[k].uri)
        /\ done[k].result = "published"
        /\ published[done[k].uri] # << >>
        /\ \E m \in DOMAIN sent : sent[m].uri = done[k].uri

\* the passes a step starts for a uri: the ones it leaves suspended and the
\* ones it runs to their end, less the ones that were suspended before
Started(u) ==
    PassesOf(passes', objects', u) + Ends(done', u) - PassesOf(passes, objects, u)

\* C30: a configuration-change notification starts one pass for every open
\* document and none for any other uri, with or without the configuration
\* capability; with it, the cache afterwards has an entry for exactly the
\* open documents.
C30_ConfigurationChangeValidatesOpenDocuments ==
    [][(\E stellar \in SettingsValues \cup {undefined} : ChangeConfiguration(stellar))
       => /\ \A u \in Uris : Started(u) = IF u \in OpenUris THEN 1 ELSE 0
          /\ OpenUris' = OpenUris
          /\ hasConfigurationCapability => DOMAIN documentSettings' = OpenUris]_vars

\* without the capability both open documents were validated in one step, on
\* the default settings
C30_Witness ==
    /\ ~hasConfigurationCapability
    /\ globalSettings = defaultSettings
    /\ Len(documents) = 2
    /\ Len(done) = 2
    /\ done[1].uri # done[2].uri
    /\ \A k \in DOMAIN done : done[k].result = "published"

(***************************************************************************)
(* Properties of hover (checked under SpecHover)                           *)
(***************************************************************************)
Hovered == hresult # << >> /\ hdoc # << >>

HoverOffset == offsetAt(hdoc[1], hpos)

\* C10 as stated: when the character at the cursor offset is not a word
\* character (whitespace or punctuation), hover returns nothing.
C10_NothingOffWord ==
    (Hovered /\ HoverOffset < Len(hdoc[1]) /\ ~IsWordChar(hdoc[1], HoverOffset))
        => hresult[1] = null

(***************************************************************************)
(* The maximal word token around an offset, found from the characters      *)
(***************************************************************************)
RECURSIVE TokenStart(_, _)
TokenStart(text, k) ==
    IF k > 0 /\ IsWordChar(text, k - 1) THEN TokenStart(text, k - 1) ELSE k

RECURSIVE TokenEnd(_, _)
TokenEnd(text, k) ==
    IF IsWordChar(text, k) THEN TokenEnd(text, k + 1) ELSE k

TokenAt(text, k) == substring(text, TokenStart(text, k), TokenEnd(text, k))

\* the cursor is on a character of a word token
OnToken == Hovered /\ IsWordChar(hdoc[1], HoverOffset)

HoverToken == TokenAt(hdoc[1], HoverOffset)

DocumentationOf(word) ==
    [contents |-> [kind |-> MarkupKind.Markdown, value |-> stellarDocs[word]]]

\* C11: on every character of a recognized identifier, from its first to its
\* last character, hover returns the documentation entry of that identifier.
C11_HoverOnWholeSpan ==
    (OnToken /\ HoverToken \in DOMAIN stellarDocs)
        => hresult[1] = DocumentationOf(HoverToken)

\* the cursor is on the first character of a recognized identifier that is
\* not at the start of the document, and hover returned its entry
C11_Witness ==
    /\ OnToken
    /\ HoverToken \in DOMAIN stellarDocs
    /\ HoverOffset = TokenStart(hdoc[1], HoverOffset)
    /\ HoverOffset > 0
    /\ Len(HoverToken) > 1
    /\ hresult[1] = DocumentationOf(HoverToken)

\* C12 as stated: hover on a token that is a key of the documentation table
\* returns exactly that key's entry, and hover on any other token (a longer
\* word, another case, any other word) returns nothing.
C12_ExactKeyOrNothing ==
    OnToken =>
        hresult[1] = IF HoverToken \in DOMAIN stellarDocs
                     THEN DocumentationOf(HoverToken)
                     ELSE null

(***************************************************************************)
(* Properties of completion (checked under SpecComplete)                   *)
(***************************************************************************)
\* C13: every completion request gets the same candidate sequence, with the
\* same contents in the same order, whatever its document and position.
C13_SameCandidatesEverywhere ==
    \A j, k \in DOMAIN ccalls : ccalls[j].result = ccalls[k].result

\* two requests for different documents at different positions were answered
C13_Witness ==
    /\ Len(ccalls) = 2
    /\ ccalls[1].params.textDocument.uri # ccalls[2].params.textDocument.uri
    /\ ccalls[1].params.position # ccalls[2].params.position
    /\ Len(ccalls[1].result) = 58
    /\ ccalls[2].result = ccalls[1].result

\* a property of an item, << >> when the item does not have it
Property(item, name) == IF name \in DOMAIN item THEN <<item[name]>> ELSE << >>

\* C14: resolving a resolved candidate again leaves its detail and
\* documentation as the first resolution set them, and a candidate whose
\* data has no branch in the resolver comes back unchanged every time.
C14_ResolveIdempotent ==
    /\ \A k \in 3..Len(cresolved) :
           /\ Property(cresolved[k], "detail") = Property(cresolved[2], "detail")
           /\ Property(cresolved[k], "documentation")
                  = Property(cresolved[2], "documentation")
    /\ (cresolved # << >> /\ cresolved[1].data \notin DOMAIN resolutions)
           => \A k \in DOMAIN cresolved : cresolved[k] = cresolved[1]

\* a candidate with a branch in the resolver was resolved twice: the first
\* resolution changed it, the second left it as it was
C14_Witness ==
    /\ Len(cresolved) = 3
    /\ cresolved[1].data \in DOMAIN resolutions
    /\ cresolved[2] # cresolved[1]
    /\ "detail" \in DOMAIN cresolved[3]
    /\ cresolved[3] = cresolved[2]

====
